---- MODULE Spec2Model ----
(***************************************************************************)
(* Model of the NNTP client of rust-nntp (src/src/nntp.rs, errors.rs):     *)
(* the NNTPStream session, its byte-wise line readers, the status-line     *)
(* parser, the command methods and the error wrappers.                     *)
(*                                                                         *)
(* Bytes and characters are integers (byte values / code points); a        *)
(* string is a sequence of them.  A written command line is the sequence   *)
(* of its space-separated tokens (the CRLF that ends it is implied); the   *)
(* message of POST is a byte sequence.                                     *)
(***************************************************************************)
EXTENDS Integers, Sequences, FiniteSets, TLC

VARIABLES
    session,      \* "none", or the server_address of the NNTPStream value
    conn,         \* the TcpStream's read side: "open" | "eof" | "failed"
    stream_in,    \* bytes received from the server and not yet read
    pc,           \* "ready" | "status" | "payload": position of the running call
    call,         \* the running (or last) call: method, kind, expected code, stage
    line_buffer,  \* line_buffer of read_response / read_multiline_response
    response,     \* response of read_multiline_response: the lines read so far
    result,       \* what the last call returned
    log,          \* I/O events of the running call, in order
    sent,         \* what the server sent in answer to the last write
    consumed,     \* bytes taken from the stream since the last write
    backlog,      \* unread bytes that were in the stream at the last write
    dial          \* connect_with_retry: its locals and what it did, in order

vars == << session, conn, stream_in, pc, call, line_buffer, response, result,
           log, sent, consumed, backlog, dial >>

----------------------------------------------------------------------------
\* Bounds of the model.

\* Unread bytes a previous call may have left in the stream when a command is
\* issued.
MaxBacklog == 1
\* Lines of a multi-line payload (the terminator not counted).
MaxLines == 2
\* Zero bytes of end-of-stream reads the model keeps at the end of line_buffer:
\* a longer run of them is kept as a run of MaxZeros or of MaxZeros + 1.
MaxZeros == 3
\* Endpoints an address resolves to.
MaxEndpoints == 2

----------------------------------------------------------------------------
\* Byte values and strings.

\* Carriage return (0x0d), line feed (0x0a) and dot (0x2e).
cr == 13
lf == 10
dot == 46
\* ' ' and ':'.
SP == 32
COLON == 58
\* The initial content of the one-byte read buffer.
NUL == 0

\* The ASCII digit of n, and the n-th lowercase letter.
Digit(n) == 48 + n
Letter(n) == 96 + n
\* '+' and '-'.
SignChars == {43, 45}

StrA == << Letter(1) >>
StrB == << Letter(2) >>
StrY == << Letter(25) >>
\* e-acute as the single byte 0xE9 (WINDOWS-1252; not valid UTF-8 on its own)
\* and as the two bytes 0xC3 0xA9 (UTF-8); the character is U+00E9.
EAcute1252 == << 233 >>
EAcuteUtf8 == << 195, 169 >>
EAcuteChar == << 233 >>

CRLF == << cr, lf >>
\* The line that ends a multi-line payload.
Terminator == << dot, cr, lf >>

----------------------------------------------------------------------------
\* Sequence helpers.

RECURSIVE Concat(_)
Concat(ss) == IF ss = << >> THEN << >> ELSE Head(ss) \o Concat(Tail(ss))

Last(s) == s[Len(s)]

Drop(s, n) == SubSeq(s, n + 1, Len(s))

Take(s, n) == SubSeq(s, 1, n)

\* Index of the first occurrence of c in s, 0 when there is none.
RECURSIVE IndexFrom(_, _, _)
IndexFrom(s, c, i) ==
    IF i > Len(s) THEN 0
    ELSE IF s[i] = c THEN i
    ELSE IndexFrom(s, c, i + 1)

IndexOf(s, c) == IndexFrom(s, c, 1)

\* str::trim_matches(set): the characters of the set are removed from both ends.
RECURSIVE TrimStart(_, _)
TrimStart(s, set) ==
    IF s # << >> /\ Head(s) \in set THEN TrimStart(Tail(s), set) ELSE s

RECURSIVE TrimEnd(_, _)
TrimEnd(s, set) ==
    IF s # << >> /\ Last(s) \in set THEN TrimEnd(Take(s, Len(s) - 1), set) ELSE s

TrimMatches(s, set) == TrimEnd(TrimStart(s, set), set)

\* str::split(c): the pieces between the occurrences of c, empty ones included.
RECURSIVE Split(_, _)
Split(s, c) ==
    LET i == IndexOf(s, c)
    IN  IF i = 0 THEN << s >>
        ELSE << Take(s, i - 1) >> \o Split(Drop(s, i), c)

\* str::splitn(2, c): the text before the first c and the text after it, or
\* the whole text alone when it holds no c.
SplitN2(s, c) ==
    LET i == IndexOf(s, c)
    IN  IF i = 0 THEN << s >> ELSE << Take(s, i - 1), Drop(s, i) >>

\* The value of a non-empty sequence of ASCII digits.
RECURSIVE DigitsValue(_)
DigitsValue(s) ==
    IF s = << >> THEN 0
    ELSE 10 * DigitsValue(Take(s, Len(s) - 1)) + (Last(s) - Digit(0))

IsDigits(s) == s # << >> /\ \A i \in 1..Len(s) : s[i] \in Digit(0)..Digit(9)

\* isize::from_str: an optional sign, then at least one digit.
ParseIsize(s) ==
    LET signed == s # << >> /\ Head(s) \in SignChars
        digits == IF signed THEN Tail(s) ELSE s
    IN  IF ~IsDigits(digits) THEN [ok |-> FALSE, val |-> 0]
        ELSE [ok |-> TRUE,
              val |-> IF signed /\ Head(s) = 45
                      THEN 0 - DigitsValue(digits) ELSE DigitsValue(digits)]

----------------------------------------------------------------------------
\* Decoding (encoding_rs): UTF-8 first, WINDOWS-1252 when UTF-8 reports errors.

IsCont(b) == b \in 128..191

\* Whether the bytes are well-formed UTF-8 (sequences of one to three bytes).
RECURSIVE Utf8Valid(_)
Utf8Valid(b) ==
    IF b = << >> THEN TRUE
    ELSE IF b[1] < 128 THEN Utf8Valid(Tail(b))
    ELSE IF b[1] \in 194..223
         THEN Len(b) >= 2 /\ IsCont(b[2]) /\ Utf8Valid(Drop(b, 2))
    ELSE IF b[1] \in 224..239
         THEN Len(b) >= 3 /\ IsCont(b[2]) /\ IsCont(b[3]) /\ Utf8Valid(Drop(b, 3))
    ELSE FALSE

\* The characters of well-formed UTF-8 bytes.
RECURSIVE Utf8Chars(_)
Utf8Chars(b) ==
    IF b = << >> THEN << >>
    ELSE IF b[1] < 128 THEN << b[1] >> \o Utf8Chars(Tail(b))
    ELSE IF b[1] \in 194..223
         THEN << (b[1] - 192) * 64 + (b[2] - 128) >> \o Utf8Chars(Drop(b, 2))
    ELSE << (b[1] - 224) * 4096 + (b[2] - 128) * 64 + (b[3] - 128) >>
             \o Utf8Chars(Drop(b, 3))

\* WINDOWS-1252 maps every byte to a character and never reports an error; the
\* bytes 0x80..0x9F, which it maps away from their own value, are not in the
\* alphabet of the model.
Windows1252Chars(b) == b

\* The decoded text and whether both decoders reported errors.
Decode(b) ==
    IF Utf8Valid(b) THEN [had_errors |-> FALSE, text |-> Utf8Chars(b)]
    ELSE [had_errors |-> FALSE, text |-> Windows1252Chars(b)]

----------------------------------------------------------------------------
\* Errors (errors.rs) and results.

\* The I/O error kinds check_io_network_error takes for network errors.
NetworkKinds ==
    { "ConnectionRefused", "ConnectionReset", "ConnectionAborted", "BrokenPipe",
      "NotConnected", "TimedOut", "WouldBlock", "Interrupted", "UnexpectedEof" }

\* Other kinds of std::io::ErrorKind.
OtherKinds == { "Other", "PermissionDenied", "InvalidInput", "InvalidData" }

\* check_io_network_error without the arm of WouldBlock.
check_io_network_error_blocking(kind) == kind \in NetworkKinds \ { "WouldBlock" }

check_io_network_error(kind) == kind \in NetworkKinds

\* A result: kind is "Ok", "Panic" or the name of an NNTPError variant; the
\* other fields hold what the variant or the success value carries.
NoResult ==
    [ kind |-> "None", expected |-> 0, received |-> 0, io |-> "",
      text |-> << >>, lines |-> << >>, groups |-> << >>, article |-> << >>,
      inner |-> << >> ]

Err(kind) == [NoResult EXCEPT !.kind = kind]

IoErr(variant, io_kind) == [NoResult EXCEPT !.kind = variant, !.io = io_kind]

OkUnit == [NoResult EXCEPT !.kind = "Ok"]

Panic == [NoResult EXCEPT !.kind = "Panic"]

response_error_or_network(kind) ==
    IF check_io_network_error(kind) THEN IoErr("Io", kind)
    ELSE IoErr("FailedReadingResponse", kind)

write_error_or_network(kind) ==
    IF check_io_network_error(kind) THEN IoErr("Io", kind)
    ELSE IoErr("FailedWritingRequest", kind)

article_error_or_network(kind) ==
    IF check_io_network_error(kind) THEN IoErr("Io", kind)
    ELSE IoErr("FailedReadingArticle", kind)

check_network_error(error) ==
    IF error.kind = "Io" THEN check_io_network_error(error.io) ELSE FALSE

\* impl From<io::Error> for NNTPError, which the ? operator applies.
FromIoError(kind) == IoErr("Io", kind)

FailedConnecting(err) == [NoResult EXCEPT !.kind = "FailedConnecting", !.inner = << err >>]

----------------------------------------------------------------------------
\* Response codes (enum ResponseCode of codes.rs).

HelpTextFollows == 100
CapabilitiesListFollows == 101
ServerDateTime == 111
ServiceAvailablePostingAllowed == 200
ServiceAvailablePostingProhibited == 201
ConnectionClosing == 205
ArticleNumbersFollows == 211
InformationFollows == 215
ArticleFollows == 220
ArticleHeadersFollows == 221
ArticleBodyFollows == 222
ArticleExistsAndSelected == 223
ListOfNewArticlesFollows == 230
ListOfNewNewsgroupsFollows == 231
ArticleReceivedOK == 240
SendArticleToPost == 340
\* The code retrieve_article matches for ArticleUnavailable.
NoSuchArticleNumber == 423

----------------------------------------------------------------------------
\* The line readers and the status-line parser.

\* The condition of the read loops: another byte is read while it holds.
LoopContinues(buf) ==
    IF Len(buf) < 2 THEN TRUE
    ELSE buf[Len(buf)] # lf /\ buf[Len(buf) - 1] # cr

\* line_buffer.push(byte_buffer[0]) after a read that gave a byte.
Push(buf, byte) == Append(buf, byte)

\* The number of zero bytes at the end of buf.
RECURSIVE TrailingZeros(_)
TrailingZeros(buf) ==
    IF buf = << >> THEN 0
    ELSE IF Last(buf) # NUL THEN 0
    ELSE 1 + TrailingZeros(Take(buf, Len(buf) - 1))

\* line_buffer.push(byte_buffer[0]) after a read that gave Ok(0): the byte is
\* the zero byte_buffer was created with.  The run of them at the end of
\* line_buffer grows to MaxZeros + 1 and then alternates between MaxZeros and
\* MaxZeros + 1: the loop condition reads the last two bytes only.
PushAtEof(buf) ==
    IF TrailingZeros(buf) > MaxZeros
    THEN Take(buf, Len(buf) - 1)
    ELSE Append(buf, NUL)

\* ParseResponse without the comparison of the code with the expected one.
ParseResponseAnyCode(buf, expected_code) ==
    LET decoded == Decode(buf)
        trimmed_response == TrimMatches(decoded.text, {cr, lf})
        response_parts == SplitN2(trimmed_response, SP)
        code == ParseIsize(response_parts[1])
    IN  IF decoded.had_errors THEN Err("DecodingError")
        ELSE IF Len(trimmed_response) < 5 \/ trimmed_response[4] # SP
        THEN [Err("InvalidResponse") EXCEPT !.text = trimmed_response]
        ELSE IF ~code.ok
        THEN [Err("InvalidResponse") EXCEPT !.text = trimmed_response]
        ELSE [OkUnit EXCEPT !.received = code.val, !.text = response_parts[2]]

\* read_response from the decoding on: the line read is in buf.
ParseResponse(buf, expected_code) ==
    LET decoded == Decode(buf)
        trimmed_response == TrimMatches(decoded.text, {cr, lf})
        response_parts == SplitN2(trimmed_response, SP)
        code == ParseIsize(response_parts[1])
    IN  IF decoded.had_errors THEN Err("DecodingError")
        ELSE IF Len(trimmed_response) < 5 \/ trimmed_response[4] # SP
        THEN [Err("InvalidResponse") EXCEPT !.text = trimmed_response]
        ELSE IF ~code.ok
        THEN [Err("InvalidResponse") EXCEPT !.text = trimmed_response]
        ELSE IF code.val # expected_code
        THEN [Err("ResponseCode") EXCEPT !.expected = expected_code,
                                         !.received = code.val]
        ELSE [OkUnit EXCEPT !.received = code.val, !.text = response_parts[2]]

----------------------------------------------------------------------------
\* NewsGroup and Article.

\* from_list_response with number set to high.
from_list_response_high(group) ==
    LET trimmed_group == TrimMatches(group, {cr, lf, SP})
        split_group == Split(trimmed_group, SP)
        high == ParseIsize(split_group[2])
        low == ParseIsize(split_group[3])
    IN  IF Len(split_group) < 2 THEN << >>
        ELSE IF ~high.ok THEN << >>
        ELSE IF Len(split_group) < 3 THEN << >>
        ELSE IF ~low.ok THEN << >>
        ELSE IF Len(split_group) < 4 THEN << >>
        ELSE << [ name |-> split_group[1], high |-> high.val, low |-> low.val,
                  number |-> high.val, status |-> split_group[4] ] >>

\* NewsGroup::from_list_response: << group >> or << >> when it panics.
from_list_response(group) ==
    LET trimmed_group == TrimMatches(group, {cr, lf, SP})
        split_group == Split(trimmed_group, SP)
        high == ParseIsize(split_group[2])
        low == ParseIsize(split_group[3])
    IN  IF Len(split_group) < 2 THEN << >>
        ELSE IF ~high.ok THEN << >>
        ELSE IF Len(split_group) < 3 THEN << >>
        ELSE IF ~low.ok THEN << >>
        ELSE IF Len(split_group) < 4 THEN << >>
        ELSE << [ name |-> split_group[1], high |-> high.val, low |-> low.val,
                  number |-> high.val - low.val, status |-> split_group[4] ] >>

\* from_group_response with number computed as high - low.
from_group_response_computed(group) ==
    LET trimmed_group == TrimMatches(group, {cr, lf, SP})
        split_group == Split(trimmed_group, SP)
        number == ParseIsize(split_group[1])
        low == ParseIsize(split_group[2])
        high == ParseIsize(split_group[3])
    IN  IF ~number.ok THEN << >>
        ELSE IF Len(split_group) < 2 THEN << >>
        ELSE IF ~low.ok THEN << >>
        ELSE IF Len(split_group) < 3 THEN << >>
        ELSE IF ~high.ok THEN << >>
        ELSE IF Len(split_group) < 4 THEN << >>
        ELSE << [ name |-> split_group[4], high |-> high.val, low |-> low.val,
                  number |-> high.val - low.val, status |-> << >> ] >>

\* NewsGroup::from_group_response: << group >> or << >> when it panics.
from_group_response(group) ==
    LET trimmed_group == TrimMatches(group, {cr, lf, SP})
        split_group == Split(trimmed_group, SP)
        number == ParseIsize(split_group[1])
        low == ParseIsize(split_group[2])
        high == ParseIsize(split_group[3])
    IN  IF ~number.ok THEN << >>
        ELSE IF Len(split_group) < 2 THEN << >>
        ELSE IF ~low.ok THEN << >>
        ELSE IF Len(split_group) < 3 THEN << >>
        ELSE IF ~high.ok THEN << >>
        ELSE IF Len(split_group) < 4 THEN << >>
        ELSE << [ name |-> split_group[4], high |-> high.val, low |-> low.val,
                  number |-> number.val, status |-> << >> ] >>

\* HashMap::insert.
Insert(map, key, value) ==
    [k \in (DOMAIN map) \cup {key} |-> IF k = key THEN value ELSE map[k]]

EmptyMap == [k \in {} |-> << >>]

\* The loop of Article::new_article over lines[i..]; ok is FALSE when an
\* unwrap panics.
RECURSIVE ArticleLoop(_, _, _, _, _)
ArticleLoop(lines, i, headers, body, parsing_headers) ==
    IF i > Len(lines)
    THEN [ok |-> TRUE, headers |-> headers, body |-> body]
    ELSE IF lines[i] = CRLF
    THEN ArticleLoop(lines, i + 1, headers, body, FALSE)
    ELSE IF parsing_headers
    THEN LET header == SplitN2(lines[i], COLON)
             key == TrimMatches(header[1], {cr, lf})
         IN  IF Len(header) < 2
             THEN [ok |-> FALSE, headers |-> headers, body |-> body]
             ELSE ArticleLoop(lines, i + 1,
                              Insert(headers, key, TrimMatches(header[2], {cr, lf})),
                              body, TRUE)
    ELSE ArticleLoop(lines, i + 1, headers, Append(body, lines[i]), FALSE)

\* Article::new_article.
new_article(lines) == ArticleLoop(lines, 1, EmptyMap, << >>, TRUE)

----------------------------------------------------------------------------
\* The server and the network, as the session sees them.

\* The three ASCII digits of a status code.
Digits3(n) == << Digit(n \div 100), Digit((n \div 10) % 10), Digit(n % 10) >>

\* All sequences over S of length at most n.
SeqsUpTo(S, n) == UNION { [1..k -> S] : k \in 0..n }

\* "a<LF>b", "a<CR>" and "<CR>b": texts with a bare LF or a bare CR.
TextBareLf == StrA \o << lf >> \o StrB
TextEndCr == StrA \o << cr >>
TextBareCr == << cr >> \o StrB
\* "3 1 3 a": count, low, high and name of a 211 reply.
TextGroup == << Digit(3), SP, Digit(1), SP, Digit(3), SP >> \o StrA

\* The texts a status line may carry after its code and space.
Texts == { StrA, << >>, TextBareLf, TextEndCr, TextBareCr, EAcuteUtf8 }

TextsFor(kind) == IF kind = "group" THEN Texts \cup { TextGroup } ELSE Texts

\* Status lines that are not of the form "NNN text": "ab", "20a ab" and
\* "1 3 ab".
RawLines ==
    { StrA \o StrB \o CRLF,
      << Digit(2), Digit(0) >> \o StrA \o << SP >> \o StrA \o StrB \o CRLF,
      << Digit(1), SP, Digit(3), SP >> \o StrA \o StrB \o CRLF }

\* "a<LF>." and "<CR>a": payload lines with a bare LF or a bare CR.
LineBareLf == StrA \o << lf, dot >>
LineBareCr == << cr >> \o StrA
\* "a 13 1 y" and "b 1 3 y": lines of a LIST payload.
LineList == StrA \o << SP, Digit(1), Digit(3), SP, Digit(1), SP >> \o StrY
LineListNeg == StrB \o << SP, Digit(1), SP, Digit(3), SP >> \o StrY
\* "a: b" and "a: y": header lines of the same name.
LineHeader == StrA \o << COLON, SP >> \o StrB
LineHeaderAgain == StrA \o << COLON, SP >> \o StrY

\* The contents (without CRLF) of the payload lines sent to a call.
LineContents(kind) ==
    IF kind = "list" THEN { LineList, LineListNeg, StrA }
    ELSE IF kind = "article" THEN { LineHeader, LineHeaderAgain, << >>, StrA }
    ELSE { StrA, EAcute1252, LineBareLf, LineBareCr }

HasPayload(kind) == kind \in { "lines", "list", "article", "raw_article" }

\* What the server sends for one request: a status line, made of a code and a
\* text or sent raw, and the lines of a payload followed by the terminator.
\* cut is set when the connection ends before all of it was received.
Reply(code, text, payload, lines) ==
    [ none |-> FALSE, raw |-> FALSE, code |-> code, text |-> text,
      status |-> Digits3(code) \o << SP >> \o text \o CRLF,
      payload |-> payload,
      lines |-> [i \in 1..Len(lines) |-> lines[i] \o CRLF],
      cut |-> FALSE ]

RawReply(line) ==
    [ none |-> FALSE, raw |-> TRUE, code |-> 0, text |-> << >>, status |-> line,
      payload |-> FALSE, lines |-> << >>, cut |-> FALSE ]

NoReply ==
    [ none |-> TRUE, raw |-> FALSE, code |-> 0, text |-> << >>, status |-> << >>,
      payload |-> FALSE, lines |-> << >>, cut |-> FALSE ]

\* The bytes of a reply.
ReplyBytes(r) ==
    r.status \o (IF r.payload THEN Concat(r.lines) \o Terminator ELSE << >>)

\* Codes the server answers besides the expected one.
OtherCodes == { NoSuchArticleNumber, ServiceAvailablePostingAllowed, 500 }

\* The replies the server may give to a request of the kind that expects the code.
Replies(kind, expected) ==
    { Reply(expected, t, HasPayload(kind), << >>) : t \in TextsFor(kind) }
    \cup (IF HasPayload(kind)
          THEN { Reply(expected, StrA, TRUE, ls) :
                     ls \in SeqsUpTo(LineContents(kind), MaxLines) }
          ELSE { })
    \cup { Reply(c, StrA, FALSE, << >>) : c \in OtherCodes \ { expected } }
    \cup { RawReply(l) : l \in RawLines }

\* The kinds of the errors a read or a write of the stream may return.
StreamErrKinds == { "TimedOut", "Other" }

\* The kinds of the errors the dialer may return.
DialErrKinds == NetworkKinds \cup OtherKinds

\* The messages given to post: "a<CR><LF>.<CR><LF>" and "<CR><LF>.<CR><LF>" are
\* valid; "a", the empty message, ".<CR><LF>", "<LF>.<CR><LF>" and
\* "a<LF>.<CR><LF>" are not.
Messages ==
    { StrA \o CRLF \o Terminator, CRLF \o Terminator, StrA, << >>, Terminator,
      << lf >> \o Terminator, StrA \o << lf >> \o Terminator }

\* Arguments of the commands.
ArticleIds == { "<1@a>" }
ArticleNumbers == { 7 }
GroupNames == { "a" }
Dates == { "20240101" }
Times == { "000000" }
Wildmats == { "*" }

----------------------------------------------------------------------------
\* The session.

\* is_valid_message looking at the last three bytes only.
is_valid_message_dot_only(message) ==
    LET length == Len(message)
    IN  length >= 3
        /\ message[length] = lf
        /\ message[length - 1] = cr
        /\ message[length - 2] = dot

\* is_valid_message looking at the last four bytes only.
is_valid_message_last_four(message) ==
    LET length == Len(message)
    IN  length >= 4
        /\ message[length] = lf
        /\ message[length - 1] = cr
        /\ message[length - 2] = dot
        /\ message[length - 3] = lf

\* NNTPStream::is_valid_message.
is_valid_message(message) ==
    LET length == Len(message)
    IN  length >= 5
        /\ message[length] = lf
        /\ message[length - 1] = cr
        /\ message[length - 2] = dot
        /\ message[length - 3] = lf
        /\ message[length - 4] = cr

\* An event of the log: a write of a command line (its tokens) or of a message
\* (its bytes), or a status line that read_response accepted (its code).
WroteLine(tokens) == [op |-> "write", tokens |-> tokens, bytes |-> << >>, code |-> 0]
WroteBytes(bytes) == [op |-> "write", tokens |-> << >>, bytes |-> bytes, code |-> 0]
GotStatus(code) == [op |-> "status", tokens |-> << >>, bytes |-> << >>, code |-> code]

\* The arguments connect and re_connect give to connect_with_retry.
MaxRetries == 3
ConnectRetryDelayMs == 70000
ReConnectRetryDelayMs == 7000
TimeoutSecs == 100

\* The addresses given to connect.
Addresses == { "news:119" }

\* The errors of TcpStream::connect_timeout in the model.
AttemptErrKinds == { "ConnectionRefused", "PermissionDenied" }

\* What connect_with_retry did: a connection attempt to the endpoint of an
\* index, with its error ("" when it succeeded); a sleep of
\* retry_delay_ms.pow(attempts) milliseconds, kept as the base and the power;
\* the setting of the read or of the write timeout.
NoEvent == [op |-> "", endpoint |-> 0, error |-> "", base |-> 0, power |-> 0, secs |-> 0]
Attempted(endpoint, error) ==
    [NoEvent EXCEPT !.op = "attempt", !.endpoint = endpoint, !.error = error]
Slept(base, power) == [NoEvent EXCEPT !.op = "sleep", !.base = base, !.power = power]
SetReadTimeout(secs) == [NoEvent EXCEPT !.op = "set_read_timeout", !.secs = secs]
SetWriteTimeout(secs) == [NoEvent EXCEPT !.op = "set_write_timeout", !.secs = secs]

\* The locals of connect_with_retry: server is the number of the endpoints;
\* outcome is "running", or how the dialer ended, or "assigned" once the
\* stream it returned is the stream of the session.
NoDial ==
    [ server |-> 0, attempts |-> 0, last_error |-> "", retry_delay_ms |-> 0,
      events |-> << >>, outcome |-> "" ]

\* while attempts <= max_retries
LoopRunsStrict(attempts, max_retries) == attempts < max_retries

LoopRuns(attempts, max_retries) == attempts <= max_retries

\* if attempts < max_retries, after attempts += 1
SleepsBeforeNext(attempts, max_retries) == attempts < max_retries

NoCall ==
    [method |-> "", kind |-> "", expected |-> 0, stage |-> 0, message |-> << >>,
     args |-> << >>, gmt |-> FALSE]

Init ==
    /\ session = "none"
    /\ conn = "failed"
    /\ stream_in = << >>
    /\ pc = "ready"
    /\ call = NoCall
    /\ line_buffer = << >>
    /\ response = << >>
    /\ result = NoResult
    /\ log = << >>
    /\ sent = NoReply
    /\ consumed = 0
    /\ backlog = 0
    /\ dial = NoDial

\* The running call returns r to its caller; its local variables are dropped.
Return(r) ==
    /\ pc' = "ready"
    /\ result' = r
    /\ line_buffer' = << >>
    /\ response' = << >>

\* An unwrap or an index of the running call panics: the call never returns.
Abort ==
    /\ pc' = "panicked"
    /\ result' = Panic
    /\ line_buffer' = << >>
    /\ response' = << >>

\* StatusError without the conversion of 423 to ArticleUnavailable.
StatusErrorNoConversion(kind, e) ==
    IF kind \in { "connect", "re_connect" } THEN FailedConnecting(e) ELSE e

\* StatusError without the wrapping of the errors of connect and re_connect.
StatusErrorNoWrap(kind, e) ==
    IF kind \in { "article", "raw_article" } /\ e.kind = "ResponseCode"
       /\ e.expected = ArticleFollows /\ e.received = 423
    THEN Err("ArticleUnavailable")
    ELSE e

\* What a method returns when its read_response returned the error e.
StatusError(kind, e) ==
    IF kind \in { "article", "raw_article" } /\ e.kind = "ResponseCode"
       /\ e.expected = ArticleFollows /\ e.received = 423
    THEN Err("ArticleUnavailable")
    ELSE IF kind \in { "connect", "re_connect" } THEN FailedConnecting(e)
    ELSE e

\* What a method makes of a write error.
WriteError(kind, io_kind) ==
    IF kind \in { "article", "raw_article" } THEN article_error_or_network(io_kind)
    ELSE write_error_or_network(io_kind)

\* self.stream.write_fmt of a call of the kind, logged as ev after the events
\* in prefix: it succeeds and the server, if the connection is up, answers the
\* request that expects the code; or it fails and the method returns the error.
WriteOutcome(kind, ev, expected, prefix) ==
    \/ /\ conn = "open"
       /\ \E r \in Replies(kind, expected) :
              /\ stream_in' = stream_in \o ReplyBytes(r)
              /\ sent' = r
       /\ log' = Append(prefix, ev)
       /\ pc' = "status"
       /\ result' = NoResult
       /\ line_buffer' = << >>
       /\ response' = << >>
       /\ UNCHANGED << conn, session >>
    \/ /\ conn # "open"
       /\ sent' = NoReply
       /\ log' = Append(prefix, ev)
       /\ pc' = "status"
       /\ result' = NoResult
       /\ line_buffer' = << >>
       /\ response' = << >>
       /\ UNCHANGED << conn, session, stream_in >>
    \/ /\ \E k \in StreamErrKinds : Return(WriteError(kind, k))
       /\ conn' = "failed"
       /\ stream_in' = << >>
       /\ sent' = NoReply
       /\ log' = prefix
       /\ UNCHANGED session

\* A write, from which consumed and backlog are counted.
Write(kind, ev, expected, prefix) ==
    /\ consumed' = 0
    /\ backlog' = Len(stream_in)
    /\ WriteOutcome(kind, ev, expected, prefix)

\* format!("VERB {} {}\r\n", ...) and format!("VERB {} {} GMT\r\n", ...): the
\* tokens of the command line, which single spaces separate and CR LF ends.
CommandLine(verb, args, use_gmt) ==
    << verb >> \o args \o (IF use_gmt THEN << "GMT" >> ELSE << >>)

\* A method that writes one command line and reads the status line that
\* answers it, expecting the code.
Command(method, kind, expected, verb, args, use_gmt) ==
    /\ pc = "ready"
    /\ session # "none"
    /\ Len(stream_in) <= MaxBacklog
    /\ dial' = NoDial
    /\ call' = [method |-> method, kind |-> kind, expected |-> expected,
                stage |-> 1, message |-> << >>, args |-> args, gmt |-> use_gmt]
    /\ Write(kind, WroteLine(CommandLine(verb, args, use_gmt)), expected, << >>)

\* The public methods.

Article == Command("article", "article", ArticleFollows, "ARTICLE", << >>, FALSE)

ArticleById ==
    \E id \in ArticleIds :
        Command("article_by_id", "article", ArticleFollows, "ARTICLE", << id >>,
                FALSE)

ArticleByNumber ==
    \E n \in ArticleNumbers :
        Command("article_by_number", "article", ArticleFollows, "ARTICLE",
                << ToString(n) >>, FALSE)

RawArticleByNumber ==
    \E n \in ArticleNumbers :
        Command("raw_article_by_number", "raw_article", ArticleFollows, "ARTICLE",
                << ToString(n) >>, FALSE)

Body == Command("body", "lines", ArticleBodyFollows, "BODY", << >>, FALSE)

BodyById ==
    \E id \in ArticleIds :
        Command("body_by_id", "lines", ArticleBodyFollows, "BODY", << id >>, FALSE)

BodyByNumber ==
    \E n \in ArticleNumbers :
        Command("body_by_number", "lines", ArticleBodyFollows, "BODY",
                << ToString(n) >>, FALSE)

Capabilities ==
    Command("capabilities", "lines", CapabilitiesListFollows, "CAPABILITIES",
            << >>, FALSE)

Date == Command("date", "text", ServerDateTime, "DATE", << >>, FALSE)

Head_ == Command("head", "lines", ArticleHeadersFollows, "HEAD", << >>, FALSE)

HeadById ==
    \E id \in ArticleIds :
        Command("head_by_id", "lines", ArticleHeadersFollows, "HEAD", << id >>,
                FALSE)

HeadByNumber ==
    \E n \in ArticleNumbers :
        Command("head_by_number", "lines", ArticleHeadersFollows, "HEAD",
                << ToString(n) >>, FALSE)

Last_ == Command("last", "text", ArticleExistsAndSelected, "LAST", << >>, FALSE)

List == Command("list", "list", InformationFollows, "LIST", << >>, FALSE)

Group ==
    \E group \in GroupNames :
        Command("group", "group", ArticleNumbersFollows, "GROUP", << group >>,
                FALSE)

Help == Command("help", "lines", HelpTextFollows, "HELP", << >>, FALSE)

Quit == Command("quit", "unit", ConnectionClosing, "QUIT", << >>, FALSE)

Newgroups ==
    \E date \in Dates, time \in Times, use_gmt \in BOOLEAN :
        Command("newgroups", "lines", ListOfNewNewsgroupsFollows, "NEWSGROUP",
                << date, time >>, use_gmt)

Newnews ==
    \E wildmat \in Wildmats, date \in Dates, time \in Times, use_gmt \in BOOLEAN :
        Command("newnews", "lines", ListOfNewArticlesFollows, "NEWNEWS",
                << wildmat, date, time >>, use_gmt)

Next_ == Command("next", "text", ArticleExistsAndSelected, "NEXT", << >>, FALSE)

Stat == Command("stat", "text", ArticleExistsAndSelected, "STAT", << >>, FALSE)

StatById ==
    \E id \in ArticleIds :
        Command("stat_by_id", "text", ArticleExistsAndSelected, "STAT", << id >>,
                FALSE)

StatByNumber ==
    \E n \in ArticleNumbers :
        Command("stat_by_number", "text", ArticleExistsAndSelected, "STAT",
                << ToString(n) >>, FALSE)

\* post writing the message right after POST, before any status line is read.
PostEager ==
    /\ pc = "ready"
    /\ session # "none"
    /\ Len(stream_in) <= MaxBacklog
    /\ dial' = NoDial
    /\ \E message \in Messages :
           /\ call' = [method |-> "post", kind |-> "post",
                       expected |-> ArticleReceivedOK, stage |-> 2,
                       message |-> message, args |-> << >>, gmt |-> FALSE]
           /\ IF ~is_valid_message(message)
              THEN /\ Return(Err("InvalidMessage"))
                   /\ log' = << >>
                   /\ sent' = NoReply
                   /\ consumed' = 0
                   /\ backlog' = Len(stream_in)
                   /\ UNCHANGED << session, conn, stream_in >>
              ELSE Write("post", WroteBytes(message), ArticleReceivedOK,
                         << WroteLine(CommandLine("POST", << >>, FALSE)) >>)

\* post: the message is checked, then POST is written and 340 awaited.  The
\* message is written when the status line that answers POST is accepted.
Post ==
    /\ pc = "ready"
    /\ session # "none"
    /\ Len(stream_in) <= MaxBacklog
    /\ dial' = NoDial
    /\ \E message \in Messages :
           /\ call' = [method |-> "post", kind |-> "post",
                       expected |-> SendArticleToPost, stage |-> 1,
                       message |-> message, args |-> << >>, gmt |-> FALSE]
           /\ IF ~is_valid_message(message)
              THEN /\ Return(Err("InvalidMessage"))
                   /\ log' = << >>
                   /\ sent' = NoReply
                   /\ consumed' = 0
                   /\ backlog' = Len(stream_in)
                   /\ UNCHANGED << session, conn, stream_in >>
              ELSE Write("post", WroteLine(CommandLine("POST", << >>, FALSE)),
                         SendArticleToPost, << >>)

\* connect_with_retry up to its loop: the address is resolved.  The error of
\* to_socket_addrs and the error made for an empty list of endpoints go to the
\* caller, whose ? operator makes an NNTPError of them.
Resolve(retry_delay_ms) ==
    \/ /\ \E k \in DialErrKinds : Return(FromIoError(k))
       /\ dial' = [NoDial EXCEPT !.retry_delay_ms = retry_delay_ms,
                                 !.outcome = "resolution error"]
    \/ /\ Return(FromIoError("Other"))
       /\ dial' = [NoDial EXCEPT !.retry_delay_ms = retry_delay_ms,
                                 !.outcome = "address resolution failed"]
    \/ /\ \E n \in 1..MaxEndpoints :
              dial' = [NoDial EXCEPT !.server = n,
                                     !.retry_delay_ms = retry_delay_ms,
                                     !.outcome = "running"]
       /\ pc' = "dial"
       /\ result' = NoResult
       /\ line_buffer' = << >>
       /\ response' = << >>

\* connect: the dialer runs, then the greeting is read, expecting 201.
Connect ==
    /\ pc = "ready"
    /\ session = "none"
    /\ \E addr \in Addresses :
           call' = [method |-> "connect", kind |-> "connect",
                    expected |-> ServiceAvailablePostingProhibited, stage |-> 1,
                    message |-> << >>, args |-> << addr >>, gmt |-> FALSE]
    /\ consumed' = 0
    /\ backlog' = 0
    /\ log' = << >>
    /\ sent' = NoReply
    /\ UNCHANGED << session, conn, stream_in >>
    /\ Resolve(ConnectRetryDelayMs)

\* re_connect: the dialer runs with the address of the session, then its
\* stream replaces the session's and the greeting is read, expecting 201.
ReConnect ==
    /\ pc = "ready"
    /\ session # "none"
    /\ call' = [method |-> "re_connect", kind |-> "re_connect",
                expected |-> ServiceAvailablePostingProhibited, stage |-> 1,
                message |-> << >>, args |-> << session >>, gmt |-> FALSE]
    /\ consumed' = 0
    /\ backlog' = 0
    /\ log' = << >>
    /\ sent' = NoReply
    /\ UNCHANGED << session, conn, stream_in >>
    /\ Resolve(ReConnectRetryDelayMs)

\* One iteration of the loop of connect_with_retry: the next endpoint of the
\* cycle is tried.  On success the timeouts are set and the stream returned; on
\* failure the error is kept, attempts counted and the sleep taken.
DialAttempt ==
    /\ pc = "dial"
    /\ LoopRuns(dial.attempts, MaxRetries)
    /\ LET address == dial.attempts % dial.server
       IN  \/ /\ dial' = [dial EXCEPT
                     !.events = dial.events \o
                         << Attempted(address, ""), SetReadTimeout(TimeoutSecs),
                            SetWriteTimeout(TimeoutSecs) >>,
                     !.outcome = "connected"]
              /\ pc' = "dialed"
           \/ /\ \E e \in AttemptErrKinds :
                    dial' = [dial EXCEPT
                        !.last_error = e,
                        !.attempts = dial.attempts + 1,
                        !.events = dial.events \o << Attempted(address, e) >> \o
                            (IF SleepsBeforeNext(dial.attempts + 1, MaxRetries)
                             THEN << Slept(dial.retry_delay_ms, dial.attempts + 1) >>
                             ELSE << >>)]
              /\ pc' = pc
    /\ UNCHANGED << session, conn, stream_in, call, line_buffer, response, result,
                    log, sent, consumed, backlog >>

\* DialExhausted with the stream of the session closed by the failed dial.
DialExhaustedDropsStream ==
    /\ pc = "dial"
    /\ ~LoopRuns(dial.attempts, MaxRetries)
    /\ Return(FromIoError(dial.last_error))
    /\ dial' = [dial EXCEPT !.outcome = "exhausted"]
    /\ conn' = "failed"
    /\ stream_in' = << >>
    /\ UNCHANGED << session, call, log, sent, consumed, backlog >>

\* The loop of connect_with_retry is over: the last error goes to the caller,
\* whose ? operator makes an NNTPError of it.
DialExhausted ==
    /\ pc = "dial"
    /\ ~LoopRuns(dial.attempts, MaxRetries)
    /\ Return(FromIoError(dial.last_error))
    /\ dial' = [dial EXCEPT !.outcome = "exhausted"]
    /\ UNCHANGED << session, conn, stream_in, call, log, sent, consumed, backlog >>

\* The dialer returned a stream: connect makes the NNTPStream of it and of the
\* address, re_connect assigns it to self.stream; then the greeting is read.
Greeting ==
    /\ pc = "dialed"
    /\ session' = IF call.kind = "connect" THEN call.args[1] ELSE session
    /\ conn' = "open"
    /\ \E r \in Replies(call.kind, ServiceAvailablePostingProhibited) :
           /\ stream_in' = ReplyBytes(r)
           /\ sent' = r
    /\ pc' = "status"
    /\ result' = NoResult
    /\ line_buffer' = << >>
    /\ response' = << >>
    /\ dial' = [NoDial EXCEPT !.outcome = "assigned"]
    /\ UNCHANGED << call, log, consumed, backlog >>

\* Where the connection may end before the rest of a reply is received:
\* between two lines and after a CR.
CutAllowed(buf) == IF buf = << >> THEN TRUE ELSE Last(buf) = cr

\* The session after a method returned its error: connect drops the stream.
Drops(kind) ==
    IF kind = "connect"
    THEN session' = "none" /\ conn' = "failed" /\ stream_in' = << >>
    ELSE UNCHANGED << session, conn, stream_in >>

\* One iteration of a read loop: self.stream.read(byte_buffer) gives the next
\* byte; or it gives Ok(0) at the end of the stream, leaving byte_buffer as it
\* was; or it fails.  The byte read is pushed on line_buffer.
ReadIteration ==
    /\ LoopContinues(line_buffer)
    /\ \/ /\ conn = "open"
          /\ stream_in # << >>
          /\ line_buffer' = Push(line_buffer, Head(stream_in))
          /\ stream_in' = Tail(stream_in)
          /\ consumed' = consumed + 1
          /\ UNCHANGED << session, conn, pc, call, response, result, log, sent,
                          backlog >>
       \/ /\ IF conn = "open" THEN CutAllowed(line_buffer) ELSE conn = "eof"
          /\ line_buffer' = PushAtEof(line_buffer)
          /\ conn' = "eof"
          /\ stream_in' = << >>
          /\ sent' = [sent EXCEPT !.cut = sent.cut \/ stream_in # << >>]
          /\ UNCHANGED << session, pc, call, response, result, log, consumed,
                          backlog >>
       \/ /\ IF conn = "open" THEN CutAllowed(line_buffer) ELSE conn = "failed"
          /\ \E k \in StreamErrKinds :
                 Return(IF pc = "status"
                        THEN StatusError(call.kind, response_error_or_network(k))
                        ELSE response_error_or_network(k))
          /\ session' = IF call.kind = "connect" THEN "none" ELSE session
          /\ conn' = "failed"
          /\ stream_in' = << >>
          /\ sent' = [sent EXCEPT !.cut = sent.cut \/ stream_in # << >>]
          /\ UNCHANGED << call, log, consumed, backlog >>

\* The read loop of read_response.
ReadStatusByte == pc = "status" /\ ReadIteration /\ UNCHANGED dial

\* The inner read loop of read_multiline_response.
ReadPayloadByte == pc = "payload" /\ ReadIteration /\ UNCHANGED dial

\* read_response has its line: it decodes and parses it and the method goes on
\* with what read_response returns.
StatusLine ==
    /\ pc = "status"
    /\ UNCHANGED dial
    /\ ~LoopContinues(line_buffer)
    /\ LET r == ParseResponse(line_buffer, call.expected)
           kind == call.kind
       IN  IF r.kind # "Ok"
           THEN /\ Return(StatusError(kind, r))
                /\ Drops(kind)
                /\ UNCHANGED << call, log, sent, consumed, backlog >>
           ELSE IF HasPayload(kind)
           THEN /\ pc' = "payload"
                /\ line_buffer' = << >>
                /\ response' = << >>
                /\ log' = Append(log, GotStatus(r.received))
                /\ UNCHANGED << session, conn, stream_in, call, result, sent,
                                consumed, backlog >>
           ELSE IF kind = "post" /\ call.stage = 1
           THEN /\ call' = [call EXCEPT !.stage = 2, !.expected = ArticleReceivedOK]
                /\ Write("post", WroteBytes(call.message), ArticleReceivedOK,
                         Append(log, GotStatus(r.received)))
           ELSE IF kind = "group"
           THEN /\ IF from_group_response(r.text) = << >>
                   THEN Abort
                   ELSE Return([OkUnit EXCEPT !.groups = from_group_response(r.text)])
                /\ log' = Append(log, GotStatus(r.received))
                /\ UNCHANGED << session, conn, stream_in, call, sent, consumed,
                                backlog >>
           ELSE /\ Return(IF kind = "text" THEN [OkUnit EXCEPT !.text = r.text]
                          ELSE OkUnit)
                /\ log' = Append(log, GotStatus(r.received))
                /\ UNCHANGED << session, conn, stream_in, call, sent, consumed,
                                backlog >>

\* What a method returns when read_multiline_response returned the lines:
\* << result >>, or << >> when it panics.
PayloadValue(kind, lines) ==
    IF kind = "article"
    THEN IF new_article(lines).ok
         THEN << [OkUnit EXCEPT !.article =
                     << [ headers |-> new_article(lines).headers,
                          body |-> new_article(lines).body ] >>] >>
         ELSE << >>
    ELSE IF kind = "list"
    THEN IF \E i \in 1..Len(lines) : from_list_response(lines[i]) = << >>
         THEN << >>
         ELSE << [OkUnit EXCEPT !.groups =
                     [i \in 1..Len(lines) |-> from_list_response(lines[i])[1]]] >>
    ELSE << [OkUnit EXCEPT !.lines = lines] >>

\* read_multiline_response has a line: it decodes it, and either the payload is
\* complete and the method returns, or the line is kept and the next one read.
PayloadLine ==
    /\ pc = "payload"
    /\ UNCHANGED dial
    /\ ~LoopContinues(line_buffer)
    /\ UNCHANGED << session, conn, stream_in, call, log, sent, consumed, backlog >>
    /\ LET decoded == Decode(line_buffer)
       IN  IF decoded.had_errors
           THEN Return(Err("DecodingError"))
           ELSE IF decoded.text = Terminator
           THEN IF PayloadValue(call.kind, response) = << >>
                THEN Abort
                ELSE Return(PayloadValue(call.kind, response)[1])
           ELSE /\ response' = Append(response, decoded.text)
                /\ line_buffer' = << >>
                /\ UNCHANGED << pc, result >>

Next ==
    \/ Connect
    \/ ReConnect
    \/ DialAttempt
    \/ DialExhausted
    \/ Greeting
    \/ Article
    \/ ArticleById
    \/ ArticleByNumber
    \/ RawArticleByNumber
    \/ Body
    \/ BodyById
    \/ BodyByNumber
    \/ Capabilities
    \/ Date
    \/ Head_
    \/ HeadById
    \/ HeadByNumber
    \/ Last_
    \/ List
    \/ Group
    \/ Help
    \/ Quit
    \/ Newgroups
    \/ Newnews
    \/ Next_
    \/ Post
    \/ Stat
    \/ StatById
    \/ StatByNumber
    \/ ReadStatusByte
    \/ StatusLine
    \/ ReadPayloadByte
    \/ PayloadLine

Spec == Init /\ [][Next]_vars

\* The running call takes its next step: the client runs without pause, so a
\* loop iteration or a line that is due is eventually taken.
FairSpec ==
    /\ Spec
    /\ WF_vars(DialAttempt)
    /\ WF_vars(DialExhausted)
    /\ WF_vars(Greeting)
    /\ WF_vars(ReadStatusByte)
    /\ WF_vars(StatusLine)
    /\ WF_vars(ReadPayloadByte)
    /\ WF_vars(PayloadLine)

----------------------------------------------------------------------------
\* Vocabulary of the properties.

\* A call has returned to its caller.
Returned == pc = "ready" /\ call.kind # ""

\* The call has ended: it returned or it panicked.
Ended == call.kind # "" /\ pc \in { "ready", "panicked" }

\* The call is a command (not connect or re_connect).
IsCommand == call.kind \notin { "", "connect", "re_connect" }

\* The text holds no CR and no LF.
NoCrLf(t) == \A i \in 1..Len(t) : t[i] \notin { cr, lf }

\* The server's answer to the last write was received whole, and the reading
\* of it started at its first byte.
Answered == ~sent.none /\ ~sent.cut /\ backlog = 0

\* The answer starts with a status line "NNN text": a three-digit code, a
\* space and a non-empty text that holds no CR and no LF.
WellFormed == Answered /\ ~sent.raw /\ sent.text # << >> /\ NoCrLf(sent.text)

\* The lines of the payload sent, decoded.
SentLines == [i \in 1..Len(sent.lines) |-> Decode(sent.lines[i]).text]

\* The message ends with CR LF '.' CR LF.
EndsWithTerminator(m) ==
    IF Len(m) < 5 THEN FALSE
    ELSE SubSeq(m, Len(m) - 4, Len(m)) = << cr, lf, dot, cr, lf >>

----------------------------------------------------------------------------
\* The claims.

\* C1: when the server answers a command that takes raw lines (CAPABILITIES,
\* HEAD, BODY, HELP, NEWGROUPS, NEWNEWS, raw ARTICLE) with the expected code and
\* a payload of lines L1..Ln followed by ".CRLF", the command returns exactly
\* [L1, ..., Ln], each with its CRLF, also when a line holds a bare LF or a CR
\* that no LF follows.
C1_LinesReturnedExactly ==
    (/\ Ended
     /\ call.kind \in { "lines", "raw_article" }
     /\ WellFormed
     /\ sent.code = call.expected
     /\ sent.payload)
    => (result.kind = "Ok" /\ result.lines = SentLines)

\* The payload sent is one the command can take: LIST lines have four tokens
\* with numeric marks, ARTICLE header lines have a colon, and no line holds a
\* bare CR or LF.
ValidPayload ==
    \A i \in 1..Len(sent.lines) :
        LET content == Take(sent.lines[i], Len(sent.lines[i]) - 2)
        IN  /\ NoCrLf(content)
            /\ call.kind = "list" => content \in { LineList, LineListNeg }
            /\ call.kind = "article" => content \in { LineHeader, << >> }

\* C2: when the server answers a command with the status line "C X CRLF",
\* C the expected code and X any text, the empty one included, the command
\* returns success, and STAT, LAST, NEXT and DATE return exactly X.
C2_ExpectedCodeSucceeds ==
    (/\ Ended
     /\ IsCommand
     /\ Answered
     /\ ~sent.raw
     /\ sent.code = call.expected
     /\ ValidPayload)
    => /\ result.kind = "Ok"
       /\ call.kind = "text" => result.text = Decode(sent.text).text

\* The status line sent carries a code other than the expected one, and the
\* pair is not the 423 that an ARTICLE command turns into ArticleUnavailable.
Mismatch ==
    /\ WellFormed
    /\ sent.code # call.expected
    /\ ~(call.kind \in { "article", "raw_article" } /\ sent.code = 423)

\* C3: a well-formed status line with a code C' other than the expected C
\* (423 to an ARTICLE command aside) makes the command return
\* ResponseCode { expected: C, received: C' }; the status line is all it read,
\* and the payload loop is never entered.
C3_MismatchIsResponseCode ==
    (IsCommand /\ Mismatch)
    => /\ pc # "payload"
       /\ pc # "panicked"
       /\ Returned =>
            /\ result = [Err("ResponseCode") EXCEPT !.expected = call.expected,
                                                    !.received = sent.code]
            /\ consumed = Len(sent.status)
            /\ conn = "open"

\* A command returned ResponseCode where a payload would have followed.
C3_Witness ==
    /\ Returned
    /\ call.method = "capabilities"
    /\ Mismatch
    /\ result.kind = "ResponseCode"
    /\ result.received = 500

ArticleMethods ==
    { "article", "article_by_id", "article_by_number", "raw_article_by_number" }

\* C4: a 423 status makes article, article_by_id, article_by_number and
\* raw_article_by_number return ArticleUnavailable, and any other code than 220
\* makes them return ResponseCode { expected: 220, received }; the HEAD, BODY
\* and STAT methods return ResponseCode for a 423 too.
C4_ArticleUnavailable ==
    (Returned /\ IsCommand /\ WellFormed /\ sent.code # call.expected)
    => IF call.method \in ArticleMethods /\ sent.code = 423
       THEN result = Err("ArticleUnavailable")
       ELSE /\ result = [Err("ResponseCode") EXCEPT !.expected = call.expected,
                                                    !.received = sent.code]
            /\ call.method \in ArticleMethods => result.expected = 220

\* Each ARTICLE method returned ArticleUnavailable, or HEAD, BODY or STAT
\* returned ResponseCode for a 423.
C4_Witness ==
    /\ Returned
    /\ WellFormed
    /\ sent.code = 423
    /\ \/ call.method = "raw_article_by_number" /\ result.kind = "ArticleUnavailable"
       \/ call.method = "body_by_id" /\ result.kind = "ResponseCode"

\* C5: post of a message that does not end with CR LF '.' CR LF returns
\* InvalidMessage at once: nothing is written, nothing is read, and the
\* stream is as it was.
C5_InvalidPostTouchesNothing ==
    [][(pc = "ready" /\ call'.kind = "post" /\ ~EndsWithTerminator(call'.message))
       => (/\ pc' = "ready"
           /\ result' = Err("InvalidMessage")
           /\ log' = << >>
           /\ consumed' = 0
           /\ UNCHANGED << stream_in, conn, session >>)]_vars

\* post refused a message whose last four bytes are right, with unread bytes
\* in the stream.
C5_Witness ==
    /\ Returned
    /\ call.kind = "post"
    /\ call.message = StrA \o << lf >> \o Terminator
    /\ result.kind = "InvalidMessage"
    /\ stream_in # << >>

\* The events of a post of message m that succeeds.
PostLog(m) ==
    << WroteLine(<< "POST" >>), GotStatus(340), WroteBytes(m), GotStatus(240) >>

IsPrefix(s, t) == Len(s) <= Len(t) /\ s = Take(t, Len(s))

\* C6: post of a valid message writes POST, reads a status line expecting 340,
\* writes the message, reads a status line expecting 240, in this order: the
\* message is written only after 340 was read, never when the first answer is
\* another code, and post succeeds only after both 340 and 240.
C6_PostOrder ==
    call.kind = "post"
    => /\ IsPrefix(log, PostLog(call.message))
       /\ (Returned /\ result.kind = "Ok") => log = PostLog(call.message)
       /\ (call.stage = 1 /\ WellFormed /\ sent.code # 340) => Len(log) <= 1
       /\ (Returned /\ Len(log) < 4) => result.kind # "Ok"

\* post succeeded: POST, 340, the message and 240 went by in this order.
C6_Witness ==
    /\ Returned
    /\ call.kind = "post"
    /\ call.stage = 2
    /\ result.kind = "Ok"
    /\ log = PostLog(call.message)

\* C7: after a dial that succeeded, connect and re_connect read one status
\* line and succeed if and only if its code is 201; another code, 200
\* included, a malformed greeting or a failed read gives FailedConnecting
\* around the error of read_response, and connect then leaves no session.
C7_GreetingMustBe201 ==
    (Returned /\ call.kind \in { "connect", "re_connect" } /\ ~sent.none)
    => /\ result.kind \in { "Ok", "FailedConnecting" }
       /\ result.kind = "Ok" => log = << GotStatus(201) >>
       /\ result.kind = "FailedConnecting" =>
            result.inner[1].kind \in
                { "ResponseCode", "InvalidResponse", "Io", "FailedReadingResponse" }
       /\ call.kind = "connect" => (session # "none" <=> result.kind = "Ok")
       /\ WellFormed =>
            /\ consumed = Len(sent.status)
            /\ IF sent.code = 201
               THEN result.kind = "Ok"
               ELSE result = FailedConnecting(
                        [Err("ResponseCode") EXCEPT !.expected = 201,
                                                    !.received = sent.code])
       /\ (Answered /\ sent.raw) =>
            /\ result.kind = "FailedConnecting"
            /\ result.inner[1].kind \in { "InvalidResponse", "ResponseCode" }
       /\ conn = "failed" =>
            /\ result.kind = "FailedConnecting"
            /\ call.kind = "re_connect" =>
                 result.inner[1].kind \in { "Io", "FailedReadingResponse" }

\* connect refused the greeting 200 and left no session.
C7_Witness ==
    /\ Returned
    /\ call.kind = "connect"
    /\ WellFormed
    /\ sent.code = 200
    /\ result.kind = "FailedConnecting"
    /\ session = "none"

\* The step is an iteration of a read loop in which the stream read reports
\* the end of the stream.
EndOfStreamRead ==
    /\ pc \in { "status", "payload" }
    /\ LoopContinues(line_buffer)
    /\ conn' = "eof"

\* C8: when the stream read reports the end of the stream before the line is
\* complete, the pending command returns an Io error of kind UnexpectedEof,
\* which is a network error, and the line buffer gets no byte that the server
\* did not send.
C8_EofIsUnexpectedEof ==
    [][EndOfStreamRead
       => (/\ pc' = "ready"
           /\ result' = IoErr("Io", "UnexpectedEof")
           /\ check_network_error(result')
           /\ line_buffer' = line_buffer)]_vars

\* C9: every command invocation eventually leaves its read loops, the reads
\* and writes of the stream returning each time they are called: it returns a
\* value or an error (or it aborts).
C9_CommandsTerminate ==
    (pc \in { "status", "payload" }) ~> (pc \in { "ready", "panicked" })

\* C10: a command whose answer started at the front of the stream and that
\* returns success, ResponseCode or ArticleUnavailable has consumed exactly
\* the bytes of its answer, so that the next status read starts at the first
\* byte of the next answer.
C10_ExactConsumption ==
    (/\ Returned /\ IsCommand /\ Answered
     /\ result.kind \in { "Ok", "ResponseCode", "ArticleUnavailable" })
    => /\ stream_in = << >>
       /\ consumed = Len(ReplyBytes(sent))

\* C11: no command aborts on what the server sends: a call whose answer was
\* received whole, whatever its status text and its payload lines, never
\* panics.
C11_NoPanic == Answered => pc # "panicked"

\* The verb of each method in the table of commands.
TableVerb(method) ==
    CASE method \in { "article", "article_by_id", "article_by_number",
                      "raw_article_by_number" } -> "ARTICLE"
      [] method \in { "body", "body_by_id", "body_by_number" } -> "BODY"
      [] method \in { "head", "head_by_id", "head_by_number" } -> "HEAD"
      [] method \in { "stat", "stat_by_id", "stat_by_number" } -> "STAT"
      [] method = "capabilities" -> "CAPABILITIES"
      [] method = "date" -> "DATE"
      [] method = "last" -> "LAST"
      [] method = "list" -> "LIST"
      [] method = "group" -> "GROUP"
      [] method = "help" -> "HELP"
      [] method = "quit" -> "QUIT"
      [] method = "newgroups" -> "NEWGROUPS"
      [] method = "newnews" -> "NEWNEWS"
      [] method = "next" -> "NEXT"
      [] method = "post" -> "POST"
      [] OTHER -> ""

\* The events of the log that are writes of a command line.
LinesWritten == { i \in 1..Len(log) : log[i].op = "write" /\ log[i].tokens # << >> }

\* C12: a command that wrote to the stream wrote first, and once only, the
\* line made of the verb of the table, the arguments and GMT when gmt is true;
\* only post writes anything more, the message.
C12_CommandLineWritten ==
    (IsCommand /\ log # << >>)
    => /\ log[1] = WroteLine(<< TableVerb(call.method) >> \o call.args
                             \o (IF call.gmt THEN << "GMT" >> ELSE << >>))
       /\ LinesWritten = { 1 }
       /\ \A i \in 2..Len(log) :
            log[i].op = "write" => (call.kind = "post" /\ log[i].bytes = call.message)

\* article returned an Article built from the payload the server sent.
ArticleBuilt ==
    /\ Returned
    /\ call.kind = "article"
    /\ WellFormed
    /\ sent.code = call.expected
    /\ sent.payload
    /\ result.kind = "Ok"

\* The position of the first empty line of the lines, 0 when there is none.
RECURSIVE FirstEmptyFrom(_, _)
FirstEmptyFrom(lines, i) ==
    IF i > Len(lines) THEN 0
    ELSE IF lines[i] = << cr, lf >> THEN i
    ELSE FirstEmptyFrom(lines, i + 1)

\* The positions of the header lines: those before the first empty line.
HeaderPositions(lines) ==
    IF FirstEmptyFrom(lines, 1) = 0 THEN 1..Len(lines)
    ELSE 1..(FirstEmptyFrom(lines, 1) - 1)

\* The name of the header line "Name: Value<CR><LF>" and its value.
HeaderName(line) == SubSeq(line, 1, IndexOf(line, COLON) - 1)
HeaderValue(line) == SubSeq(line, IndexOf(line, COLON) + 2, Len(line) - 2)

\* The line has the form "Name: Value<CR><LF>".
IsHeaderLine(line) ==
    /\ IndexOf(line, COLON) > 1
    /\ Len(line) >= IndexOf(line, COLON) + 3
    /\ line[IndexOf(line, COLON) + 1] = SP
    /\ SubSeq(line, Len(line) - 1, Len(line)) = << cr, lf >>

\* C13: the headers of the Article map the name of every header line
\* "Name: Value<CR><LF>" before the first empty line to Value, without the
\* space that follows the colon and without the CR LF; of the lines of one
\* name the last one gives the value.
C13_HeaderValues ==
    ArticleBuilt
    => \A i \in HeaderPositions(SentLines) :
          (/\ IsHeaderLine(SentLines[i])
           /\ \A j \in HeaderPositions(SentLines) :
                 (j > i /\ IsHeaderLine(SentLines[j]))
                 => HeaderName(SentLines[j]) # HeaderName(SentLines[i]))
          => /\ HeaderName(SentLines[i]) \in DOMAIN result.article[1].headers
             /\ result.article[1].headers[HeaderName(SentLines[i])]
                    = HeaderValue(SentLines[i])

\* C14: the body of the Article is made of all the lines after the first empty
\* line, in order and as they were sent, later empty lines included, and no
\* line after the first empty line gives a header.
C14_BodyAfterFirstEmptyLine ==
    ArticleBuilt
    => /\ result.article[1].body
            = (IF FirstEmptyFrom(SentLines, 1) = 0 THEN << >>
               ELSE SubSeq(SentLines, FirstEmptyFrom(SentLines, 1) + 1,
                           Len(SentLines)))
       /\ Cardinality(DOMAIN result.article[1].headers)
            <= Cardinality(HeaderPositions(SentLines))

\* C15: is_network is true of an error if and only if the error is the Io
\* variant and its I/O kind is one of the nine kinds listed; it is false of
\* every other I/O kind and of every other variant.
C15_IsNetworkIff ==
    Returned
    => (check_network_error(result)
        <=> /\ result.kind = "Io"
            /\ result.io \in { "ConnectionRefused", "ConnectionReset",
                               "ConnectionAborted", "BrokenPipe", "NotConnected",
                               "TimedOut", "WouldBlock", "Interrupted",
                               "UnexpectedEof" })

\* A call returned Io(WouldBlock), for which is_network is true.
C15_Witness ==
    /\ Returned
    /\ result.kind = "Io"
    /\ result.io = "WouldBlock"
    /\ check_network_error(result)

\* C16: is_valid_message is true of a message if and only if the message has
\* at least 5 bytes and its last five bytes are CR LF '.' CR LF; post refuses
\* exactly the other messages, the shorter ones included.
C16_ValidMessageIff ==
    call.kind = "post"
    => /\ is_valid_message(call.message)
            <=> (/\ Len(call.message) >= 5
                 /\ SubSeq(call.message, Len(call.message) - 4, Len(call.message))
                        = << 13, 10, 46, 13, 10 >>)
       /\ Len(call.message) < 5 => result.kind = "InvalidMessage"
       /\ result.kind = "InvalidMessage" <=> ~is_valid_message(call.message)

\* post took the message of five bytes CR LF '.' CR LF for valid and wrote POST.
C16_Witness ==
    /\ call.kind = "post"
    /\ call.message = << 13, 10, 46, 13, 10 >>
    /\ is_valid_message(call.message)
    /\ log # << >>

\* The decimal digits of a number below 100.
Dec(n) == IF n < 10 THEN << 48 + n >> ELSE << 48 + (n \div 10), 48 + (n % 10) >>

\* Names, numbers and statuses of newsgroups.
SomeNames == { << 97 >>, << 98 >> }
SomeNumbers == 0..20
SomeStatuses == { << 121 >> }

\* list returned, the server having sent the code 215 and a payload.
ListAnswered ==
    /\ Ended
    /\ call.kind = "list"
    /\ WellFormed
    /\ sent.code = call.expected
    /\ sent.payload

\* The line "name high low status<CR><LF>".
ListLine(name, high, low, status) ==
    name \o << 32 >> \o Dec(high) \o << 32 >> \o Dec(low) \o << 32 >> \o status
    \o << 13, 10 >>

IsListLine(line) ==
    \E name \in SomeNames, high \in SomeNumbers, low \in SomeNumbers,
       status \in SomeStatuses : line = ListLine(name, high, low, status)

\* C17: when every line of the payload of LIST is "name high low status", list
\* returns one NewsGroup for each line, in the order of the payload, with that
\* name, high, low and status, and with number = high - low, negative when
\* high < low.
C17_ListRoundTrip ==
    (ListAnswered /\ \A i \in 1..Len(SentLines) : IsListLine(SentLines[i]))
    => /\ result.kind = "Ok"
       /\ Len(result.groups) = Len(SentLines)
       /\ \A i \in 1..Len(SentLines) :
            \A name \in SomeNames, high \in SomeNumbers, low \in SomeNumbers,
               status \in SomeStatuses :
                SentLines[i] = ListLine(name, high, low, status)
                => result.groups[i] = [ name |-> name, high |-> high, low |-> low,
                                        number |-> high - low, status |-> status ]

\* list returned the groups of "a 13 1 y" and "b 1 3 y", the second with the
\* number -2.
C17_Witness ==
    /\ ListAnswered
    /\ Len(SentLines) = 2
    /\ SentLines[1] = ListLine(<< 97 >>, 13, 1, << 121 >>)
    /\ SentLines[2] = ListLine(<< 98 >>, 1, 3, << 121 >>)
    /\ result.kind = "Ok"
    /\ result.groups[1].number = 12
    /\ result.groups[2].number = -2

\* group returned, the server having sent the code 211.
GroupAnswered ==
    /\ Ended
    /\ call.kind = "group"
    /\ WellFormed
    /\ sent.code = call.expected

\* The text "count low high name".
GroupText(count, low, high, name) ==
    Dec(count) \o << 32 >> \o Dec(low) \o << 32 >> \o Dec(high) \o << 32 >> \o name

\* C18: on the reply "211 count low high name" group returns the NewsGroup
\* whose number is the count the server reported, whose low, high and name
\* are the reported ones and whose status is empty.
C18_GroupRoundTrip ==
    GroupAnswered
    => \A count \in SomeNumbers, low \in SomeNumbers, high \in SomeNumbers,
          name \in SomeNames :
           sent.text = GroupText(count, low, high, name)
           => /\ result.kind = "Ok"
              /\ result.groups = << [ name |-> name, high |-> high, low |-> low,
                                      number |-> count, status |-> << >> ] >>

\* group returned the group of "211 3 1 3 a": number 3, which is not high - low.
C18_Witness ==
    /\ GroupAnswered
    /\ sent.text = GroupText(3, 1, 3, << 97 >>)
    /\ result.kind = "Ok"
    /\ result.groups[1].number = 3
    /\ result.groups[1].high - result.groups[1].low = 2

\* C19: a read loop stops only when the last two bytes read are CR LF: the
\* line it hands to the decoder ends with CR LF and holds no CR LF before its
\* end (the bytes being those the server sent).
C19_StopsOnCrLfOnly ==
    (pc \in { "status", "payload" } /\ conn = "open" /\ ~LoopContinues(line_buffer))
    => /\ Len(line_buffer) >= 2
       /\ SubSeq(line_buffer, Len(line_buffer) - 1, Len(line_buffer)) = << 13, 10 >>
       /\ \A i \in 1..(Len(line_buffer) - 2) :
            ~(line_buffer[i] = 13 /\ line_buffer[i + 1] = 10)

\* The characters of the status line the server sent, without its CR LF.
StatusChars == Decode(SubSeq(sent.status, 1, Len(sent.status) - 2)).text

\* A call returned after it received, from its first byte on, a status line
\* that holds no CR and no LF besides the two that end it.
StatusLineRead ==
    /\ Returned
    /\ Answered
    /\ NoCrLf(StatusChars)

\* The three characters are decimal digits.
ThreeDigits(t) == \A i \in 1..3 : t[i] \in 48..57

\* The status line is one read_response is to accept: at least 5 characters,
\* the fourth a space, the first three a decimal integer.
Acceptable(t) == Len(t) >= 5 /\ t[4] = 32 /\ ThreeDigits(t)

\* The value of three decimal digits.
ThreeDigitsValue(t) == 100 * (t[1] - 48) + 10 * (t[2] - 48) + (t[3] - 48)

\* The error of read_response inside the error the method returned.
ReadError == IF result.kind = "FailedConnecting" THEN result.inner[1] ELSE result

\* C20: read_response accepts a status line only if, without its CR LF, it has
\* at least 5 characters, a space as the fourth and a decimal integer as the
\* first three; the code is then the value of these three and the rest what
\* follows the fourth character.  Every other line gives InvalidResponse with
\* the stripped line, never ResponseCode.
C20_StatusLineParse ==
    StatusLineRead
    => IF Acceptable(StatusChars)
       THEN /\ ReadError.kind # "InvalidResponse"
            /\ ThreeDigitsValue(StatusChars) # call.expected
                 => /\ ReadError.kind \in { "ResponseCode", "ArticleUnavailable" }
                    /\ ReadError.kind = "ResponseCode"
                         => ReadError.received = ThreeDigitsValue(StatusChars)
            /\ (ThreeDigitsValue(StatusChars) = call.expected /\ call.kind = "text")
                 => /\ result.kind = "Ok"
                    /\ result.text = SubSeq(StatusChars, 5, Len(StatusChars))
       ELSE /\ ReadError.kind = "InvalidResponse"
            /\ ReadError.text = StatusChars

\* The connection attempts of the dialer, in order.
IsAttempt(e) == e.op = "attempt"
Attempts == SelectSeq(dial.events, IsAttempt)

\* The dialer ended without a stream, every attempt having failed.
DialFailed == dial.outcome = "exhausted"

\* The dialer ended with a stream.
DialSucceeded == dial.outcome = "connected"

RECURSIVE FailedBefore(_)
FailedBefore(i) ==
    IF i = 0 THEN 0
    ELSE FailedBefore(i - 1)
         + (IF IsAttempt(dial.events[i]) /\ dial.events[i].error # "" THEN 1 ELSE 0)

\* C22: every failed attempt that is followed by another attempt is followed
\* at once by a sleep of base_delay_ms to the power of the attempts failed so
\* far; no sleep follows the final attempt; no two attempts are made without a
\* sleep between them.
C22_SleepBetweenAttempts ==
    LET ev == dial.events
    IN  /\ \A i \in 1..(Len(ev) - 1) :
               IsAttempt(ev[i]) /\ (\E j \in (i + 1)..Len(ev) : IsAttempt(ev[j]))
               => /\ ev[i + 1].op = "sleep"
                  /\ ev[i + 1].base = dial.retry_delay_ms
                  /\ ev[i + 1].power = FailedBefore(i)
        /\ DialFailed => ev[Len(ev)].op # "sleep"

\* The step of the returned command at which the I/O failed: its log is that
\* of the steps done before.  A write fails with nothing logged or, in post,
\* with the status of POST logged last; a status read fails after a write; a
\* payload read fails after the status of a command with a payload.
FailedStep ==
    IF log = << >> THEN "write"
    ELSE IF Last(log).op = "write" THEN "status"
    ELSE IF call.kind = "post" THEN "write"
    ELSE "payload"

\* A command returned because of an I/O error that is not of a network kind.
NonNetworkIoFailure ==
    Returned /\ IsCommand /\ result.io # "" /\ result.io \notin NetworkKinds

\* C23: an I/O error that is not of a network kind is wrapped after the step
\* that failed, for every command: a failed write gives FailedWritingRequest, a
\* failed read of the status line FailedReadingResponse, a failed read of the
\* payload of ARTICLE FailedReadingArticle; FailedReadingArticle is never
\* returned for a failed write.
C23_WrappedByFailingStep ==
    NonNetworkIoFailure
    => /\ FailedStep = "write" => result.kind = "FailedWritingRequest"
       /\ FailedStep = "status" => result.kind = "FailedReadingResponse"
       /\ (FailedStep = "payload" /\ call.kind \in { "article", "raw_article" })
            => result.kind = "FailedReadingArticle"

\* The kind of the I/O error because of which the operation returned, "" when
\* it returned for another reason: the error itself, or the one inside
\* FailedConnecting.
UnderlyingIo == ReadError.io

\* C24: every operation, connect and re_connect among them, that fails
\* because of an I/O error of a network kind returns an error that
\* check_network_error accepts, also when the failure happens while the
\* greeting is read.
C24_NetworkFailureIsNetwork ==
    (Returned /\ UnderlyingIo \in NetworkKinds) => check_network_error(result)

\* C25: the Io variant is returned only for an underlying error of a network
\* kind: every Io error returned is accepted by check_network_error, and a
\* failure that is not of a network kind, such as a failed address resolution,
\* is never returned as Io.
C25_IoOnlyForNetwork ==
    (Returned /\ result.kind = "Io") => check_network_error(result)

\* C26: re_connect replaces the stream of the session only when the dial
\* succeeds.  While it dials and when the dial fails the previous stream is
\* kept; when the dial succeeds the stream is replaced before the greeting is
\* read, the new stream holding only what the server sent on it, and it stays
\* the stream of the session when the greeting fails with FailedConnecting.
\* Neither re_connect nor any command changes the server address.
C26_ReConnectStream ==
    [][/\ call'.kind # "connect" => session' = session
       /\ call'.kind = "re_connect"
            => /\ pc' \in { "dial", "dialed" } => UNCHANGED << conn, stream_in >>
               /\ (pc \in { "ready", "dial" } /\ pc' = "ready")
                    => /\ UNCHANGED << conn, stream_in >>
                       /\ result'.kind = "Io"
               /\ pc = "dialed"
                    => /\ pc' = "status" /\ consumed' = 0
                       /\ conn' = "open"
                       /\ stream_in' = ReplyBytes(sent')
                       /\ dial'.outcome = "assigned"
               /\ (pc = "status" /\ pc' = "ready" /\ result'.kind # "Ok")
                    => /\ result'.kind = "FailedConnecting"
                       /\ dial'.outcome = "assigned"
                       /\ conn' \in { conn, "failed" }
                       /\ stream_in' \in { stream_in, << >> }]_vars

\* re_connect dialed, found the greeting wrong and returned FailedConnecting:
\* the session has the stream of this dial, still open.
C26_Witness ==
    /\ Returned
    /\ call.kind = "re_connect"
    /\ result.kind = "FailedConnecting"
    /\ dial.outcome = "assigned"
    /\ conn = "open"
    /\ session \in Addresses

====
